---- MODULE Spec2Model ----
\* Session-scoped batch pipeline of main.py: upload_files, analyze_images,
\* embed_and_upload and the deferred cleanup_session, over a small file store.
\*
\* One request handler runs at a time: analyze_images and embed_and_upload are
\* `async def` bodies without an await, so each occupies the event loop from its
\* first line to its return.  cleanup_session is a plain function handed to
\* BackgroundTasks: it runs once the response has been sent, on a worker thread,
\* and so interleaves with whatever handler the loop runs next.
EXTENDS Integers, Sequences, FiniteSets, TLC

\* ---------------------------------------------------------------- bounds
MaxFiles == 2        \* longest list of payloads / metadata records in one request
MaxRequests == 3     \* requests issued in one behaviour

\* ---------------------------------------------------------------- values
\* File names are sequences of characters, so that lower() and endswith()
\* are computed and not assumed.
NameA == <<"a", ".", "j", "p", "g">>
NameB == <<"B", ".", "P", "N", "G">>
NameC == <<"c", ".", "t", "x", "t">>
Names == {NameA, NameB, NameC}

\* The bytes of a payload.  Payloads of one request that share a file name
\* differ: the j-th payload of a name carries Blob(j), so that the content of a
\* file tells which of them produced it.
Blob(j) == <<"bytes", j>>
Occurrence(ns, k) == Cardinality({m \in 1..k : ns[m] = ns[k]})

\* uuid4 values handed out by upload_files, in the order they are drawn.
SessionIds == <<"s1", "s2">>
IssuedIds == {SessionIds[k] : k \in 1..Len(SessionIds)}
\* session_id values a request may carry: any uuid (handed out already or not)
\* and the empty string.
EmptyId == ""
RequestIds == IssuedIds \cup {EmptyId}

\* ---------------------------------------------------------------- files
NoTags == [title |-> <<>>, description |-> <<>>, keywords |-> <<>>, category |-> <<>>,
           caption |-> <<>>, iptc_keywords |-> <<>>, xmp_title |-> <<>>,
           xmp_description |-> <<>>, xmp_subject |-> <<>>]
NoFile == [data |-> <<>>, tags |-> NoTags]
EmptyDir == [n \in Names |-> NoFile]

VARIABLES
  root,     \* TRUE while TEMP_DIR exists
  dirs,     \* set of session ids whose directory exists under TEMP_DIR
  files,    \* files[s][n]: the file named n of session s (NoFile when absent)
  issued,   \* number of session ids handed out so far
  tasks,    \* tasks[id]: cleanup_session(id) calls queued and not yet run
  log,      \* what cleanup_session has logged: <<id, "info">> or <<id, "error">>
  nreq,     \* requests started so far
  h         \* the handler the event loop is running (kind "none" when idle)

vars == <<root, dirs, files, issued, tasks, log, nreq, h>>

\* TEMP_DIR = "/app/temp"; os.path.join(TEMP_DIR, session_id).  Joining the
\* empty string yields TEMP_DIR itself ("/app/temp/").
IsRoot(id) == id = EmptyId

\* os.path.exists(os.path.join(TEMP_DIR, id))
PathExists(id) == IF IsRoot(id) THEN root ELSE id \in dirs

\* if not os.path.exists(session_path): raise HTTPException(status_code=404)
\* A mutant: the check is left out.
NoResolve(id) == TRUE
Resolves(id) == PathExists(id)

\* os.path.exists(os.path.join(session_path, filename)) for a simple file name.
\* TEMP_DIR itself holds only the session directories.
FileExists(id, n) == id \in dirs /\ files[id][n] # NoFile

\* The names os.listdir(session_path) yields.  Session directories are named by
\* uuid4 strings, which carry no extension, so the listing of TEMP_DIR holds no
\* candidate file name.
DirNames(id) == IF id \in dirs THEN {n \in Names : files[id][n] # NoFile} ELSE {}

\* The elements of a list.
Range(q) == {q[k] : k \in 1..Len(q)}

\* ---------------------------------------------------------------- handler
Idle == [kind |-> "none", pc |-> "idle", sid |-> EmptyId, in |-> <<>>,
         ctx |-> [isNone |-> FALSE, entries |-> {}], listing |-> <<>>, i |-> 0,
         out |-> <<>>, errs |-> <<>>, uperrs |-> <<>>, status |-> 0,
         detail |-> "", opened |-> "", env |-> <<>>, calls |-> <<>>, names0 |-> {},
         scheduled |-> FALSE, reaped |-> FALSE]

Init ==
  /\ root = TRUE
  /\ dirs = {}
  /\ files = [s \in IssuedIds |-> EmptyDir]
  /\ issued = 0
  /\ tasks = [id \in RequestIds |-> 0]
  /\ log = {}
  /\ nreq = 0
  /\ h = Idle

\* ---------------------------------------------------------------- cleanup_session
\* What shutil.rmtree leaves of a directory it could not remove completely:
\* it deletes entry by entry and raises at the first entry it cannot delete.
Remains(dir) == {d \in [Names -> {NoFile} \cup {dir[n] : n \in Names}] :
                   /\ \A n \in Names : d[n] \in {NoFile, dir[n]}
                   /\ \E n \in Names : d[n] # NoFile}

\* A deletion under the namespace of the running handler is noted in it.
Covers(id, s) == IsRoot(id) \/ id = s
NoteReap(id) ==
  IF h.kind # "none" /\ Covers(id, h.sid) THEN [h EXCEPT !.reaped = TRUE] ELSE h

\* cleanup_session(id): the path is absent, nothing to do.
CleanupAbsent(id) ==
  /\ tasks[id] > 0
  /\ ~PathExists(id)
  /\ tasks' = [tasks EXCEPT ![id] = @ - 1]
  /\ UNCHANGED <<root, dirs, files, issued, log, nreq, h>>

\* shutil.rmtree(session_path) when nothing goes wrong: the directories left.
\* A mutant: the directory is kept.
RmtreeKeeps(id) == dirs
Rmtree(id) == IF IsRoot(id) THEN {} ELSE dirs \ {id}

\* cleanup_session(id): shutil.rmtree removes the directory and all under it;
\* logger.info("Cleaned up session").
CleanupRemoved(id) ==
  /\ tasks[id] > 0
  /\ PathExists(id)
  /\ tasks' = [tasks EXCEPT ![id] = @ - 1]
  /\ root' = IF IsRoot(id) THEN FALSE ELSE root
  /\ dirs' = Rmtree(id)
  /\ files' = [s \in IssuedIds |-> IF s \in dirs' THEN files[s] ELSE EmptyDir]
  /\ log' = log \cup {<<id, "info">>}
  /\ h' = NoteReap(id)
  /\ UNCHANGED <<issued, nreq>>

\* cleanup_session(id): shutil.rmtree raises part-way; the error is logged
\* (logger.error) and the directory stays, with the entries not yet deleted.
CleanupFailed(id) ==
  /\ tasks[id] > 0
  /\ PathExists(id)
  /\ tasks' = [tasks EXCEPT ![id] = @ - 1]
  /\ IF IsRoot(id)
       THEN \E keep \in SUBSET dirs :
              /\ dirs' = keep
              /\ files' = [s \in IssuedIds |-> IF s \in keep THEN files[s] ELSE EmptyDir]
       ELSE /\ dirs' = dirs
            /\ \/ files' = files
               \/ \E d \in Remains(files[id]) : files' = [files EXCEPT ![id] = d]
  /\ root' = root
  /\ log' = log \cup {<<id, "error">>}
  /\ h' = IF files' # files \/ dirs' # dirs THEN NoteReap(id) ELSE h
  /\ UNCHANGED <<issued, nreq>>

Cleanup(id) == CleanupAbsent(id) \/ CleanupRemoved(id) \/ CleanupFailed(id)
cleanup_session == \E id \in RequestIds : Cleanup(id)

\* ---------------------------------------------------------------- upload_files
SeqsUpTo(S, k) == UNION {[1..m -> S] : m \in 0..k}
\* The payloads of one upload request: (filename, content) pairs.
UploadLists ==
  {[k \in 1..Len(ns) |-> [filename |-> ns[k], content |-> Blob(Occurrence(ns, k))]] :
     ns \in SeqsUpTo(Names, MaxFiles)}

\* session_id = str(uuid.uuid4()); os.makedirs(session_path, exist_ok=True)
UploadStart ==
  /\ h.kind = "none"
  /\ nreq < MaxRequests
  /\ issued < Len(SessionIds)
  /\ \E fs \in UploadLists :
       LET s == SessionIds[issued + 1] IN
       /\ h' = [Idle EXCEPT !.kind = "upload", !.pc = "write", !.sid = s,
                            !.in = fs, !.i = 1]
       /\ dirs' = dirs \cup {s}
       /\ files' = [files EXCEPT ![s] = EmptyDir]
  /\ root' = TRUE
  /\ issued' = issued + 1
  /\ nreq' = nreq + 1
  /\ UNCHANGED <<tasks, log>>

\* What one pass of the loop body does to the file: content = await file.read();
\* open(file_location, 'wb'); f.write(content).
\*   "ok"          the content is written
\*   "open_error"  read() or open() raised: the file is left as it was
\*   "write_error" open() truncated the file and write() raised
WriteOutcomes == {"ok", "open_error", "write_error"}
WriteFile(old, content, outcome) ==
  CASE outcome = "ok" -> [data |-> content, tags |-> NoTags]
    [] outcome = "write_error" -> [data |-> <<"partial">>, tags |-> NoTags]
    [] OTHER -> old

\* file_list.append(file.filename) is reached only when nothing raised.
\* A mutant: the file name is appended before the write is attempted.
AppendAlways(file_list, name, outcome) == Append(file_list, name)
AppendWritten(file_list, name, outcome) ==
  IF outcome = "ok" THEN Append(file_list, name) ELSE file_list

UploadWrite ==
  /\ h.kind = "upload" /\ h.pc = "write" /\ h.i <= Len(h.in)
  /\ LET f == h.in[h.i] IN
     \E outcome \in WriteOutcomes :
       \* without the directory open() cannot succeed
       /\ (h.sid \notin dirs) => outcome = "open_error"
       /\ files' = IF h.sid \in dirs
                     THEN [files EXCEPT ![h.sid][f.filename] =
                             WriteFile(@, f.content, outcome)]
                     ELSE files
       /\ h' = [h EXCEPT !.out = AppendWritten(@, f.filename, outcome),
                         !.env = Append(@, outcome),
                         !.i = @ + 1]
  /\ UNCHANGED <<root, dirs, issued, tasks, log, nreq>>

\* return {"session_id": session_id, "files": file_list}
UploadReturn ==
  /\ h.kind = "upload" /\ h.pc = "write" /\ h.i > Len(h.in)
  /\ h' = [h EXCEPT !.pc = "done", !.status = 200]
  /\ UNCHANGED <<root, dirs, files, issued, tasks, log, nreq>>

\* ---------------------------------------------------------------- analyze_images
\* str.lower() on the characters that occur in the file names.
LowerChar(c) ==
  CASE c = "B" -> "b" [] c = "P" -> "p" [] c = "N" -> "n" [] c = "G" -> "g"
    [] c = "J" -> "j" [] c = "E" -> "e" [] OTHER -> c
Lower(name) == [k \in 1..Len(name) |-> LowerChar(name[k])]
EndsWith(name, suffix) ==
  /\ Len(name) >= Len(suffix)
  /\ SubSeq(name, Len(name) - Len(suffix) + 1, Len(name)) = suffix
ImageSuffixes == {<<".", "j", "p", "g">>, <<".", "j", "p", "e", "g">>, <<".", "p", "n", "g">>}

\* A mutant: the extension is compared without lower().
IsImageCaseSensitive(name) == \E suf \in ImageSuffixes : EndsWith(name, suf)
\* f.lower().endswith(('.jpg', '.jpeg', '.png'))
IsImage(name) == \E suf \in ImageSuffixes : EndsWith(Lower(name), suf)

\* The orders in which os.listdir may yield a set of names.
Orders(S) == {q \in [1..Cardinality(S) -> S] : \A a, b \in 1..Cardinality(S) :
                 q[a] = q[b] => a = b}

\* request.context_map: Optional[Dict[str, str]] = {}.  A request may leave the
\* field out (the default {}), send a mapping, or send null (None).
NoneMap == [isNone |-> TRUE, entries |-> {}]
Dict(entries) == [isNone |-> FALSE, entries |-> entries]
ContextMaps == {NoneMap, Dict({}), Dict({<<NameA, "ctx-a">>})}
\* dict.get(key, default)
Get(entries, key, default) ==
  IF \E e \in entries : e[1] = key
    THEN (CHOOSE e \in entries : e[1] = key)[2]
    ELSE default

\* What the provider's text is made of: markdown fences and JSON values.
FenceJson == [type |-> "fence-json", fields |-> {}]   \* the marker that opens a json block
Fence == [type |-> "fence", fields |-> {}]            \* the bare fence marker
Garbage == [type |-> "garbage", fields |-> {}]
JsonList == [type |-> "list", fields |-> {}]
JsonFull == [type |-> "dict",
             fields |-> {<<"Title", "t">>, <<"Description", "d">>,
                         <<"Keywords", "k">>, <<"Category", "c">>}]
JsonPartial == [type |-> "dict", fields |-> {<<"Title", "t">>, <<"Keywords", "k">>}]

\* What requests.post can come back with.
Reply(err, status, envelope, text) ==
  [err |-> err, status |-> status, envelope |-> envelope, text |-> text]
ProviderReplies ==
  { Reply(TRUE, 0, FALSE, <<>>),                          \* the call raises
    Reply(FALSE, 500, FALSE, <<>>),                       \* non-success status
    Reply(FALSE, 200, FALSE, <<>>),                       \* no candidates[0]...text
    Reply(FALSE, 200, TRUE, <<Garbage>>),                 \* text that is no JSON
    Reply(FALSE, 200, TRUE, <<JsonList>>),                \* JSON, but no object
    Reply(FALSE, 200, TRUE, <<JsonFull>>),
    Reply(FALSE, 200, TRUE, <<FenceJson, JsonFull, Fence>>),
    Reply(FALSE, 200, TRUE, <<JsonPartial>>) }

\* text_content.replace(<json fence>, "").replace(<fence>, "").strip()
CleanJson(text) == SelectSeq(text, LAMBDA t : t # FenceJson /\ t # Fence)

\* The record appended in the except branch.
FailureRecord(filename, diagnostic) ==
  [filename |-> filename, title |-> "Error Processing", description |-> diagnostic,
   keywords |-> "", category |-> ""]
\* The record appended at the end of the try block: metadata.get(key, "").
\* A mutant: a missing key fails the file.
StrictRecord(filename, metadata) ==
  IF \A key \in {"Title", "Description", "Keywords", "Category"} :
       \E e \in metadata : e[1] = key
    THEN [filename |-> filename,
          title |-> Get(metadata, "Title", ""),
          description |-> Get(metadata, "Description", ""),
          keywords |-> Get(metadata, "Keywords", ""),
          category |-> Get(metadata, "Category", "")]
    ELSE FailureRecord(filename, "KeyError")
SuccessRecord(filename, metadata) ==
  [filename |-> filename,
   title |-> Get(metadata, "Title", ""),
   description |-> Get(metadata, "Description", ""),
   keywords |-> Get(metadata, "Keywords", ""),
   category |-> Get(metadata, "Category", "")]

\* The body of the try block for one file, and its except branch: the record
\* that results.append receives.
AnalyzeOne(filename, readOk, reply) ==
  IF ~readOk THEN FailureRecord(filename, "cannot read file")
  ELSE IF reply.err THEN FailureRecord(filename, "connection error")
  ELSE IF reply.status \notin 200..399 THEN FailureRecord(filename, "http error")
  ELSE IF ~reply.envelope THEN FailureRecord(filename, "Invalid API response format")
  ELSE LET clean == CleanJson(reply.text) IN
    IF Len(clean) # 1 \/ clean[1].type \notin {"dict", "list"}
      THEN FailureRecord(filename, "json decode error")
    ELSE IF clean[1].type # "dict"
      THEN FailureRecord(filename, "object has no attribute get")
    ELSE SuccessRecord(filename, clean[1].fields)

\* session_path = os.path.join(TEMP_DIR, request.session_id); 404 when it is
\* absent; image_files = the image names of os.listdir(session_path).
AnalyzeStart ==
  /\ h.kind = "none"
  /\ nreq < MaxRequests
  /\ nreq' = nreq + 1
  /\ \E id \in RequestIds, ctx \in ContextMaps :
       IF ~Resolves(id)
         THEN h' = [Idle EXCEPT !.kind = "analyze", !.pc = "done", !.sid = id,
                                !.ctx = ctx, !.status = 404,
                                !.detail = "Session not found"]
         ELSE \E image_files \in Orders({n \in DirNames(id) : IsImage(n)}) :
                h' = [Idle EXCEPT !.kind = "analyze", !.pc = "loop", !.sid = id,
                                  !.ctx = ctx, !.listing = image_files, !.i = 1,
                                  !.names0 = DirNames(id)]
  /\ UNCHANGED <<root, dirs, files, issued, tasks, log>>

\* results.append(record): the record goes to the end of the list.
\* A mutant: the record is put in front.
PrependResult(results, record) == <<record>> \o results
AppendResult(results, record) == Append(results, record)

\* One pass of `for filename in image_files`.
AnalyzeFile ==
  /\ h.kind = "analyze" /\ h.pc = "loop" /\ h.i <= Len(h.listing)
  /\ LET filename == h.listing[h.i] IN
     IF h.ctx.isNone
       \* request.context_map.get raises AttributeError outside the try block:
       \* the handler ends with an unhandled exception
       THEN h' = [h EXCEPT !.pc = "done", !.status = 500, !.out = <<>>,
                           !.detail = "Internal Server Error"]
       ELSE LET user_context == Get(h.ctx.entries, filename, "") IN
            \E readOk \in BOOLEAN, reply \in ProviderReplies :
              \* a file that is gone cannot be read
              /\ ~FileExists(h.sid, filename) => ~readOk
              \* no reply is looked at unless the call was made
              /\ ~readOk => reply = Reply(TRUE, 0, FALSE, <<>>)
              /\ h' = [h EXCEPT
                         !.out = AppendResult(@, AnalyzeOne(filename, readOk, reply)),
                         !.env = Append(@, [readOk |-> readOk, reply |-> reply]),
                         !.calls = IF readOk
                                     THEN Append(@, [op |-> "provider", file |-> filename,
                                                     context |-> user_context])
                                     ELSE @,
                         !.i = @ + 1]
  /\ UNCHANGED <<root, dirs, files, issued, tasks, log, nreq>>

\* return {"results": results}
AnalyzeReturn ==
  /\ h.kind = "analyze" /\ h.pc = "loop" /\ h.i > Len(h.listing)
  /\ h' = [h EXCEPT !.pc = "done", !.status = 200]
  /\ UNCHANGED <<root, dirs, files, issued, tasks, log, nreq>>

\* ---------------------------------------------------------------- embed_and_upload
\* A MetadataItem: filename and four caller-edited texts.  Records of one
\* request that name the same file differ: the j-th record of a name carries
\* the texts numbered j.
Item(name, j) ==
  [filename |-> name, title |-> <<"title", j>>, description |-> <<"description", j>>,
   keywords |-> <<"keywords", j>>, category |-> <<"category", j>>]
MetadataLists ==
  {[k \in 1..Len(ns) |-> Item(ns[k], Occurrence(ns, k))] :
     ns \in SeqsUpTo(Names, MaxFiles)}

\* The tag assignments of cmd: every -Tag=value replaces the tag's value.
ExifTags(item) ==
  [title |-> item.title, description |-> item.description,
   keywords |-> item.keywords, category |-> item.category,
   caption |-> item.description, iptc_keywords |-> item.keywords,
   xmp_title |-> item.title, xmp_description |-> item.description,
   xmp_subject |-> item.keywords]

\* exiftool -overwrite_original -Tag=value ...: the tags of the file after a
\* run that succeeded.  `=` sets a tag, whatever it held before.
\* A mutant: the values are added to what the tags held (as `+=` would).
AccumulateTags(old, item) == [f \in DOMAIN old |-> old[f] \o ExifTags(item)[f]]
WriteTags(old, item) == ExifTags(item)

\* What subprocess.run(cmd, capture_output=True, text=True, check=True) does:
\*   "ok"       exit code 0, the file is rewritten in place with the tags
\*   "nonzero"  CalledProcessError, the file is left as it was
\*   "oserror"  the tool cannot be run at all (FileNotFoundError, PermissionError)
ToolOutcomes == {"ok", "nonzero", "oserror"}

\* except subprocess.CalledProcessError: the exceptions the embedding loop catches.
\* A mutant: every failure of the tool is caught.
CaughtAny(outcome) == outcome \in {"nonzero", "oserror"}
CaughtByEmbed(outcome) == outcome = "nonzero"

EmbedStart ==
  /\ h.kind = "none"
  /\ nreq < MaxRequests
  /\ nreq' = nreq + 1
  /\ \E id \in RequestIds, metadata \in MetadataLists :
       h' = IF ~Resolves(id)
              THEN [Idle EXCEPT !.kind = "embed", !.pc = "done", !.sid = id,
                                !.in = metadata, !.status = 404,
                                !.detail = "Session not found"]
              ELSE [Idle EXCEPT !.kind = "embed", !.pc = "embed", !.sid = id,
                                !.in = metadata, !.i = 1, !.names0 = DirNames(id)]
  /\ UNCHANGED <<root, dirs, files, issued, tasks, log>>

\* One pass of `for item in request.metadata` (embedding).
\* A mutant of the skip: a missing file is reported in embed_errors.
SkipWithDiagnostic(embed_errors, item) ==
  Append(embed_errors, [filename |-> item.filename, message |-> "file not found"])
SkipMissing(embed_errors, item) == embed_errors

EmbedItem ==
  /\ h.kind = "embed" /\ h.pc = "embed" /\ h.i <= Len(h.in)
  /\ LET item == h.in[h.i] IN
     IF ~FileExists(h.sid, item.filename)
       THEN \* if not os.path.exists(image_path): continue
            /\ h' = [h EXCEPT !.errs = SkipMissing(@, item), !.i = @ + 1]
            /\ files' = files
       ELSE \E outcome \in ToolOutcomes :
              \* again: the file already carries the values of this record
              LET call == [op |-> "exiftool", file |-> item.filename, k |-> h.i,
                           result |-> outcome,
                           again |-> files[h.sid][item.filename].tags = ExifTags(item)] IN
              /\ files' = IF outcome = "ok"
                            THEN [files EXCEPT ![h.sid][item.filename].tags =
                                    WriteTags(@, item)]
                            ELSE files
              /\ h' = IF outcome = "ok"
                        THEN [h EXCEPT !.calls = Append(@, call), !.i = @ + 1]
                      ELSE IF CaughtByEmbed(outcome)
                        THEN [h EXCEPT !.calls = Append(@, call), !.i = @ + 1,
                                       !.errs = Append(@, [filename |-> item.filename,
                                                           message |-> "ExifTool failed"])]
                        \* any other exception leaves the handler unhandled
                        ELSE [h EXCEPT !.calls = Append(@, call), !.pc = "done",
                                       !.status = 500,
                                       !.detail = "Internal Server Error"]
  /\ UNCHANGED <<root, dirs, issued, tasks, log, nreq>>

\* The embedding loop has ended: `with FTP(request.ftp_host) as ftp` connects
\* and ftp.login(...) authenticates.  An exception of either is caught by the
\* outer except, before any file is looked at.
\*   "ok"             connected and logged in
\*   "connect_error"  FTP(host) raised
\*   "login_error"    ftp.login raised
OpenOutcomes == {"ok", "connect_error", "login_error"}

\* A mutant: a failed login is ignored and the transfer loop is entered.
EntersLoopAlways(outcome) == TRUE
EntersLoop(outcome) == outcome = "ok"

\* The with statement follows the embedding loop: it is reached when
\* `for item in request.metadata` has gone through every record.
\* A mutant: the connection is opened while records are still to be embedded.
OpenAnytime(i, len) == TRUE
LoopExhausted(i, len) == i > len

FtpOpen ==
  /\ h.kind = "embed" /\ h.pc = "embed" /\ LoopExhausted(h.i, Len(h.in))
  /\ \E outcome \in OpenOutcomes :
       LET call == [op |-> "open", file |-> <<>>, k |-> 0, result |-> outcome] IN
       h' = IF EntersLoop(outcome)
              THEN [h EXCEPT !.pc = "upload", !.i = 1, !.opened = outcome,
                             !.calls = Append(@, call)]
              ELSE [h EXCEPT !.pc = "done", !.status = 200, !.detail = "failed",
                             !.opened = outcome, !.calls = Append(@, call)]
  /\ UNCHANGED <<root, dirs, files, issued, tasks, log, nreq>>

\* Where the transfer loop goes on after the inner except has recorded a failure.
\* A mutant: the failure ends the loop.
AbortBatch(i, len) == len + 1
AfterStoreError(i, len) == i + 1

\* if not os.path.exists(file_path): continue -- the one test that keeps a
\* record out of the transfer; embed_errors is not looked at.
\* A mutant: a file the embedding tool failed on is skipped as well.
SkipsFailedToo(exists, embedFailed) == ~exists \/ embedFailed
SkipsTransfer(exists, embedFailed) == ~exists

\* One pass of `for item in request.metadata` (transfer): open(file_path, "rb")
\* and ftp.storbinary; whatever either raises is caught by the inner except.
FtpStore ==
  /\ h.kind = "embed" /\ h.pc = "upload" /\ h.i <= Len(h.in)
  /\ LET filename == h.in[h.i].filename IN
     IF SkipsTransfer(FileExists(h.sid, filename),
                      \E e \in Range(h.errs) : e.filename = filename)
       THEN h' = [h EXCEPT !.i = @ + 1]
       ELSE \E ok \in BOOLEAN :
              LET call == [op |-> "stor", file |-> filename, k |-> h.i,
                           result |-> IF ok THEN "ok" ELSE "error"] IN
              h' = IF ok
                     THEN [h EXCEPT !.out = Append(@, filename), !.i = @ + 1,
                                    !.calls = Append(@, call)]
                     ELSE [h EXCEPT !.uperrs = Append(@, [filename |-> filename,
                                                          message |-> "FTP Upload failed"]),
                                    !.i = AfterStoreError(@, Len(h.in)),
                                    !.calls = Append(@, call)]
  /\ UNCHANGED <<root, dirs, files, issued, tasks, log, nreq>>

\* The with block is left: FTP.__exit__ sends QUIT.  It swallows OSError and
\* EOFError; an error reply to QUIT (ftplib.Error) leaves the with statement
\* as an exception, which the outer except reports as a connection failure.
\* When QUIT goes well: background_tasks.add_task(cleanup_session, session_id)
\* and the "completed" response.
\* A mutant: the cleanup is queued whatever the outcome.
QueueAlways(quitOk) == TRUE
QueueCleanup(quitOk) == quitOk

FtpQuit ==
  /\ h.kind = "embed" /\ h.pc = "upload" /\ h.i > Len(h.in)
  /\ \E quitOk \in BOOLEAN :
       LET call == [op |-> "quit", file |-> <<>>, k |-> 0,
                    result |-> IF quitOk THEN "ok" ELSE "error"] IN
       h' = [h EXCEPT !.pc = "done", !.status = 200,
                      !.detail = IF quitOk THEN "completed" ELSE "failed",
                      !.scheduled = QueueCleanup(quitOk),
                      !.calls = Append(@, call)]
  /\ UNCHANGED <<root, dirs, files, issued, tasks, log, nreq>>

\* ---------------------------------------------------------------- response
\* The response leaves the server; a cleanup the handler queued with
\* background_tasks.add_task starts after it.
Respond ==
  /\ h.kind # "none" /\ h.pc = "done"
  /\ tasks' = IF h.scheduled THEN [tasks EXCEPT ![h.sid] = @ + 1] ELSE tasks
  /\ h' = Idle
  /\ UNCHANGED <<root, dirs, files, issued, log, nreq>>

Next ==
  \/ UploadStart
  \/ UploadWrite
  \/ UploadReturn
  \/ AnalyzeStart
  \/ AnalyzeFile
  \/ AnalyzeReturn
  \/ EmbedStart
  \/ EmbedItem
  \/ FtpOpen
  \/ FtpStore
  \/ FtpQuit
  \/ Respond
  \/ cleanup_session

Spec == Init /\ [][Next]_vars

\* A queued background task is run: the worker thread that holds it is never
\* starved for ever.
FairSpec == Spec /\ \A id \in RequestIds : WF_vars(Cleanup(id))

\* ================================================================ properties
\* The indices 1..n that satisfy P, in increasing order.
Indices(n, P(_)) ==
  LET F[k \in 0..n] == IF k = 0 THEN <<>>
                       ELSE IF P(k) THEN Append(F[k - 1], k) ELSE F[k - 1]
  IN F[n]
KnownIds == {SessionIds[k] : k \in 1..issued}
Calls(op) == SelectSeq(h.calls, LAMBDA c : c.op = op)

\* The JSON keys of the response of embed_and_upload.
ResponseKeys ==
  IF h.detail = "completed" THEN {"status", "uploaded", "upload_errors", "embed_errors"}
  ELSE IF h.detail = "failed" THEN {"status", "error", "embed_errors"}
  ELSE {"detail"}

AnalyzeDone == h.kind = "analyze" /\ h.pc = "done"
EmbedDone == h.kind = "embed" /\ h.pc = "done"
UploadDone == h.kind = "upload" /\ h.pc = "done"

\* ---------------------------------------------------------------- C1
\* C1: for every session that exists, analyze returns exactly one outcome per
\* image file of the session (extension .jpg, .jpeg or .png in any case): the
\* outcomes name each image file once and nothing else, whatever failed.
C1_OneOutcomePerImage ==
  (AnalyzeDone /\ h.status # 404) =>
     LET images == {n \in h.names0 : IsImage(n)} IN
     /\ h.status = 200
     /\ Len(h.out) = Cardinality(images)
     /\ {h.out[k].filename : k \in 1..Len(h.out)} = images

\* ---------------------------------------------------------------- C2
\* C2: when connecting or logging in fails, the response is the connection
\* failure and no file was handed to the transfer endpoint; and whenever the
\* response is the connection failure, no file of the batch was transferred and
\* the response carries no per-file upload diagnostics.
C2_ConnectionFailureMeansNoTransfer ==
  EmbedDone =>
    /\ h.opened \in {"connect_error", "login_error"} =>
         (h.detail = "failed" /\ Calls("stor") = <<>>)
    /\ h.detail = "failed" =>
         (Calls("stor") = <<>> /\ "upload_errors" \notin ResponseKeys)

\* ---------------------------------------------------------------- C3
\* C3: an embed-and-upload request queues the cleanup of its session exactly
\* when it ends "completed" (per-file embed or transfer failures included); no
\* other request queues one; and when it ends with the connection failure the
\* session directory still holds every file it held when the request began,
\* unless a cleanup queued by an earlier request deleted under it meanwhile.
C3_ReaperIffCompleted ==
  /\ h.scheduled <=> (EmbedDone /\ h.detail = "completed")
  /\ (EmbedDone /\ h.detail = "failed" /\ ~h.reaped) =>
       (PathExists(h.sid) /\ DirNames(h.sid) = h.names0)

\* A request that ended "completed" although an embed and a transfer failed.
C3_Witness ==
  /\ EmbedDone /\ h.detail = "completed" /\ h.scheduled
  /\ h.errs # <<>> /\ h.uperrs # <<>>

\* ---------------------------------------------------------------- C4
\* C4: once the connection is open, every record whose file exists gets one
\* transfer attempt, in record order, whatever happened to the records before
\* it; uploaded_files is the successful attempts and upload_errors the failed
\* ones, each in record order.
C4_TransferFailureIsPerFile ==
  (h.kind = "embed" /\ h.opened = "ok") =>
    LET stor == Calls("stor")
        seen == IF h.pc = "upload" THEN h.i - 1 ELSE Len(h.in)
        oks == SelectSeq(stor, LAMBDA c : c.result = "ok")
        bad == SelectSeq(stor, LAMBDA c : c.result = "error")
    IN /\ ~h.reaped =>
            [j \in 1..Len(stor) |-> stor[j].k] =
               Indices(seen, LAMBDA k : h.in[k].filename \in h.names0)
       /\ \A j \in 1..Len(stor) : stor[j].file = h.in[stor[j].k].filename
       /\ h.out = [j \in 1..Len(oks) |-> oks[j].file]
       /\ [j \in 1..Len(h.uperrs) |-> h.uperrs[j].filename] =
             [j \in 1..Len(bad) |-> bad[j].file]

\* The first of two transfers failed and the second was still made.
C4_Witness ==
  /\ EmbedDone /\ h.detail = "completed" /\ Len(h.in) = 2
  /\ Len(Calls("stor")) = 2
  /\ Calls("stor")[1].result = "error" /\ Calls("stor")[2].result = "ok"

\* ---------------------------------------------------------------- C5
\* C5: analyze and embed-and-upload for a session id that no upload returned
\* fail with "Session not found", call nothing outside and queue no cleanup.
C5_UnknownIdNotFound ==
  (h.kind \in {"analyze", "embed"} /\ h.sid \notin KnownIds) =>
    /\ h.pc = "done" /\ h.status = 404
    /\ h.calls = <<>> /\ h.out = <<>> /\ ~h.scheduled

\* ---------------------------------------------------------------- C6
\* C6: in analyze a failure at any step for a file gives that file the record
\* {filename, "Error Processing", diagnostic, "", ""}; it is never raised to
\* the caller, and every later file is still processed.
StepFailed(e) ==
  \/ ~e.readOk
  \/ e.reply.err
  \/ e.reply.status >= 400
  \/ ~e.reply.envelope
  \/ \A t \in Range(e.reply.text) : t.type # "dict"
C6_FailureIsARecord ==
  (AnalyzeDone /\ h.status # 404) =>
    /\ h.status = 200
    /\ Len(h.out) = Len(h.listing)
    /\ \A k \in 1..Len(h.out) :
         /\ h.out[k].filename = h.listing[k]
         /\ StepFailed(h.env[k]) =>
              /\ h.out[k].title = "Error Processing"
              /\ h.out[k].description # ""
              /\ h.out[k].keywords = "" /\ h.out[k].category = ""

\* ---------------------------------------------------------------- C7
\* C7: a record whose file is not in the session directory gets a diagnostic
\* naming it in embed_errors, and the records after it are processed.
C7_MissingFileDiagnosed ==
  (h.kind = "embed" /\ h.pc \in {"upload", "done"} /\ h.sid \in KnownIds
     /\ h.status # 404 /\ ~h.reaped) =>
    \A k \in 1..Len(h.in) :
      h.in[k].filename \notin h.names0 =>
        \E j \in 1..Len(h.errs) : h.errs[j].filename = h.in[k].filename

\* ---------------------------------------------------------------- C8
\* C8: a failure of the embedding tool for a file (it exits non-zero, or it
\* cannot be run) is a diagnostic with that file's name in embed_errors; the
\* request does not end with an unhandled exception because of it.
C8_ToolFailureIsPerFile ==
  h.kind = "embed" =>
    \A j \in 1..Len(Calls("exiftool")) :
      LET c == Calls("exiftool")[j] IN
      c.result # "ok" =>
        /\ \E e \in Range(h.errs) : e.filename = c.file
        /\ h.status # 500

\* ---------------------------------------------------------------- C9
\* C9 as claimed: once an embed-and-upload request has completed, the session
\* directory is eventually gone.
C9_EventuallyDeleted ==
  \A s \in IssuedIds : (tasks[s] > 0) ~> (s \notin dirs)

\* C9 as amended: once an embed-and-upload request has completed, the cleanup
\* eventually runs, and then the session directory is gone unless rmtree
\* failed and the failure was logged; a session directory that is gone stays
\* gone, and every analyze and embed-and-upload for it ends "Session not found".
C9_DeletedUnlessRmtreeFails ==
  /\ \A s \in IssuedIds : (tasks[s] > 0) ~> (s \notin dirs \/ <<s, "error">> \in log)
  /\ [][\A s \in KnownIds : s \notin dirs => s \notin dirs']_vars
  /\ [][(h.kind = "none" /\ h'.kind \in {"analyze", "embed"} /\ ~PathExists(h'.sid))
          => (h'.pc = "done" /\ h'.status = 404)]_vars

\* The session was cleaned up and a later request for it was refused.
C9_Witness ==
  /\ h.kind \in {"analyze", "embed"} /\ h.sid \in KnownIds
  /\ h.sid \notin dirs /\ <<h.sid, "info">> \in log
  /\ h.pc = "done" /\ h.status = 404

\* ---------------------------------------------------------------- C10
\* C10: an upload of N payloads of which M could not be written returns the
\* names of the N-M written ones in input order and ends normally; every name
\* it returns is a file of the new session directory; and a name given more
\* than once holds the content of its last payload when that one was written
\* (unless a cleanup deleted under the directory meanwhile).
C10_ReturnsWrittenFiles ==
  UploadDone =>
    LET written == Indices(Len(h.in), LAMBDA k : h.env[k] = "ok") IN
    /\ h.status = 200 /\ Len(h.env) = Len(h.in)
    /\ h.out = [j \in 1..Len(written) |-> h.in[written[j]].filename]
    /\ ~h.reaped =>
         /\ \A n \in Range(h.out) : FileExists(h.sid, n)
         /\ \A k \in 1..Len(h.in) :
              (h.env[k] = "ok" /\ \A m \in (k + 1)..Len(h.in) :
                                     h.in[m].filename # h.in[k].filename)
                => files[h.sid][h.in[k].filename].data = h.in[k].content

\* Two payloads of one name: both written, the second one's content stays.
C10_Witness ==
  /\ UploadDone /\ Len(h.in) = 2 /\ h.in[1].filename = h.in[2].filename
  /\ h.env = <<"ok", "ok">>
  /\ files[h.sid][h.in[1].filename].data = Blob(2)

\* ---------------------------------------------------------------- C11
\* C11: the outcomes of analyze are in the order in which the image files of
\* the listing were iterated: at every moment the k-th outcome names the k-th
\* image file of the listing, failures and successes alike, and the list that
\* is returned covers the whole listing.
C11_OutcomesInListingOrder ==
  h.kind = "analyze" =>
    /\ Len(h.out) <= Len(h.listing)
    /\ \A k \in 1..Len(h.out) : h.out[k].filename = h.listing[k]
    /\ (h.pc = "done" /\ h.status = 200) => Len(h.out) = Len(h.listing)

\* Two image files: the first one failed, the second one succeeded, and the
\* outcomes came back in the order of the listing.
C11_Witness ==
  /\ AnalyzeDone /\ h.status = 200 /\ Len(h.listing) = 2
  /\ h.out[1].title = "Error Processing" /\ h.out[2].title = "t"
  /\ h.out[1].filename = h.listing[1] /\ h.out[2].filename = h.listing[2]

\* ---------------------------------------------------------------- C12
\* The session a step works for: the session of the running upload or
\* embed-and-upload request, or the session whose queued cleanup the step runs.
WorksFor(s) ==
  \/ h'.kind = "upload" /\ h'.sid = s
  \/ h.kind = "embed" /\ h'.kind = "embed" /\ h.sid = s
  \/ tasks'[s] < tasks[s]

\* C12: every step changes (creates, writes, deletes) only the directory and
\* the files of the session it works for: the files of every other session
\* are left as they were.
C12_OnlyOwnNamespace ==
  [][\A s \in IssuedIds :
       (files'[s] # files[s] \/ (s \in dirs') # (s \in dirs)) => WorksFor(s)]_vars

\* ---------------------------------------------------------------- C13
\* The handler of a session's request is about to make an external call and
\* will wait for it: requests.post for the next image file, subprocess.run for
\* the next record whose file exists, or a command to the FTP server.
Suspended ==
  /\ h.sid \in KnownIds
  /\ \/ /\ h.kind = "analyze" /\ h.pc = "loop" /\ h.i <= Len(h.listing)
        /\ ~h.ctx.isNone /\ FileExists(h.sid, h.listing[h.i])
     \/ /\ h.kind = "embed" /\ h.pc = "embed"
        /\ (h.i <= Len(h.in) => FileExists(h.sid, h.in[h.i].filename))
     \/ h.kind = "embed" /\ h.pc = "upload"

\* C13: while a request waits for the provider, the embedding tool or the FTP
\* server, a request for another session can be started and served.
C13_OtherSessionsProgress ==
  (Suspended /\ nreq < MaxRequests) =>
     ENABLED (UploadStart \/ AnalyzeStart \/ EmbedStart)

\* ---------------------------------------------------------------- C14
\* The step is a run of the embedding tool that succeeded.
EmbeddedNow ==
  /\ h.kind = "embed" /\ h.pc = "embed" /\ h'.kind = "embed"
  /\ Len(h'.calls) = Len(h.calls) + 1
  /\ h'.calls[Len(h'.calls)].op = "exiftool"
  /\ h'.calls[Len(h'.calls)].result = "ok"

\* C14: a successful run of the embedder leaves every tag of the file with the
\* value of the record and the content as it was; run on a file that already
\* carries the values of the same record (a retry of the request), it leaves
\* the file exactly as it found it.
C14_EmbedIsIdempotent ==
  [][EmbeddedNow =>
       LET item == h.in[h.i]
           old == files[h.sid][item.filename]
           new == files'[h.sid][item.filename]
       IN /\ new.data = old.data
          /\ new.tags.title = item.title /\ new.tags.xmp_title = item.title
          /\ new.tags.description = item.description
          /\ new.tags.caption = item.description
          /\ new.tags.xmp_description = item.description
          /\ new.tags.keywords = item.keywords
          /\ new.tags.iptc_keywords = item.keywords
          /\ new.tags.xmp_subject = item.keywords
          /\ new.tags.category = item.category
          /\ (old.tags = ExifTags(item)) => (new = old)]_vars

\* The embedder has run again, with the same record, on a file it had
\* embedded before, and the file carries the record's values.
C14_Witness ==
  /\ h.kind = "embed" /\ Calls("exiftool") # <<>>
  /\ LET c == Calls("exiftool")[Len(Calls("exiftool"))] IN
       /\ c.result = "ok" /\ c.again
       /\ FileExists(h.sid, c.file)
       /\ files[h.sid][c.file].tags = ExifTags(h.in[c.k])

\* ---------------------------------------------------------------- C15
\* The record numbers of the calls of one kind, in the order they were made.
RecordsOf(op) == [j \in 1..Len(Calls(op)) |-> Calls(op)[j].k]
Increasing(q) == \A a, b \in 1..Len(q) : a < b => q[a] < q[b]

\* C15: within one request the provider is called at most once per image
\* file; the embedding tool is run exactly once for every record whose file
\* exists, and never twice for a record; and at most one STOR is issued per
\* record.
C15_NoRetries ==
  /\ h.kind = "analyze" =>
       \A a, b \in 1..Len(Calls("provider")) :
         Calls("provider")[a].file = Calls("provider")[b].file => a = b
  /\ h.kind = "embed" =>
       /\ Increasing(RecordsOf("exiftool"))
       /\ Increasing(RecordsOf("stor"))
       /\ (h.pc \in {"upload", "done"} /\ h.status # 404 /\ ~h.reaped) =>
            RecordsOf("exiftool") =
              Indices(Len(h.in), LAMBDA k : h.in[k].filename \in h.names0)

\* ---------------------------------------------------------------- C16
\* The stage a call belongs to.
Stage(op) ==
  CASE op = "exiftool" -> 1 [] op = "open" -> 2 [] op = "stor" -> 3 [] OTHER -> 4

\* The calls of an embed-and-upload request go stage by stage, and when the
\* connection is opened every record whose file exists has had its run of the
\* embedding tool.
StagesForward ==
  h.kind = "embed" =>
    /\ \A a, b \in 1..Len(h.calls) :
         a < b => Stage(h.calls[a].op) <= Stage(h.calls[b].op)
    /\ (Calls("open") # <<>> /\ ~h.reaped) =>
         RecordsOf("exiftool") =
           Indices(Len(h.in), LAMBDA k : h.in[k].filename \in h.names0)
    /\ \A c \in Range(Calls("stor")) : Calls("open") # <<>>

\* A file or a session directory is deleted in this step.
Deletes(s) ==
  \/ s \in dirs /\ s \notin dirs'
  \/ \E n \in Names : files[s][n] # NoFile /\ files'[s][n] = NoFile

\* C16: in an embed-and-upload request every embed attempt comes before the
\* connection is opened and every transfer attempt after it; the cleanup of
\* the session is queued only with the response of a request whose transfer
\* loop and QUIT are over; and files are deleted only by a cleanup that was
\* queued that way, so never by the request before its own response.
C16_StagesForward ==
  /\ []StagesForward
  /\ [][\A id \in RequestIds :
         tasks'[id] > tasks[id] =>
           /\ h.kind = "embed" /\ h.sid = id /\ h.pc = "done"
           /\ h.detail = "completed" /\ h.i > Len(h.in)
           /\ h.calls[Len(h.calls)].op = "quit"
           /\ h'.kind = "none"]_vars
  /\ [][\A s \in IssuedIds :
         Deletes(s) => (tasks[s] > tasks'[s] \/ tasks[EmptyId] > tasks'[EmptyId])]_vars

\* A request with two records has embedded both, then transferred both, and
\* is about to respond: its files are all still there and no cleanup runs yet.
C16_Witness ==
  /\ EmbedDone /\ h.detail = "completed" /\ h.scheduled /\ ~h.reaped
  /\ Len(h.in) = 2 /\ h.in[1].filename # h.in[2].filename
  /\ RecordsOf("exiftool") = <<1, 2>> /\ RecordsOf("stor") = <<1, 2>>
  /\ tasks[h.sid] = 0 /\ tasks[EmptyId] = 0
  /\ \A k \in 1..2 : FileExists(h.sid, h.in[k].filename)

\* ---------------------------------------------------------------- C17
\* C17: whatever context_map the request carries (a mapping, none, or null),
\* analyze goes through its files, and the context in the instruction sent for
\* a file is the mapping's value for that file name when it has one, and the
\* empty text otherwise.
C17_ContextIsPerFile ==
  h.kind = "analyze" =>
    /\ h.status # 500
    /\ \A c \in Range(Calls("provider")) :
         IF \E e \in h.ctx.entries : e[1] = c.file
           THEN \E e \in h.ctx.entries : e[1] = c.file /\ e[2] = c.context
           ELSE c.context = ""

\* ---------------------------------------------------------------- C18
\* The provider answered file k with text that parses to a JSON object.
ParsedObject(k) ==
  /\ h.env[k].readOk /\ ~h.env[k].reply.err
  /\ h.env[k].reply.status = 200 /\ h.env[k].reply.envelope
  /\ Len(CleanJson(h.env[k].reply.text)) = 1
  /\ CleanJson(h.env[k].reply.text)[1].type = "dict"
\* The value the outcome must carry for a key of the parsed object.
Expected(k, key) ==
  LET fields == CleanJson(h.env[k].reply.text)[1].fields IN
  IF \E e \in fields : e[1] = key
    THEN (CHOOSE e \in fields : e[1] = key)[2]
    ELSE ""

\* C18: when the provider's text parses to an object, the outcome of the file
\* is a success record: each of title, description, keywords and category is
\* the value of Title, Description, Keywords, Category when the object has
\* that key and the empty string when it has not; it is never the failure
\* record.
C18_MissingFieldsAreEmpty ==
  h.kind = "analyze" =>
    \A k \in 1..Len(h.out) :
      ParsedObject(k) =>
        /\ h.out[k].filename = h.listing[k]
        /\ h.out[k].title = Expected(k, "Title")
        /\ h.out[k].description = Expected(k, "Description")
        /\ h.out[k].keywords = Expected(k, "Keywords")
        /\ h.out[k].category = Expected(k, "Category")
        /\ h.out[k].title # "Error Processing"

\* An object with Title and Keywords only came back as a success record with
\* empty description and category.
C18_Witness ==
  /\ AnalyzeDone /\ h.status = 200
  /\ \E k \in 1..Len(h.out) :
       /\ ParsedObject(k)
       /\ h.out[k].title = "t" /\ h.out[k].keywords = "k"
       /\ h.out[k].description = "" /\ h.out[k].category = ""

\* ---------------------------------------------------------------- C19
\* C19: once the transfer connection is open and the transfer loop is over,
\* every record whose file is in the session directory has had a transfer
\* attempt, the records the embedding tool failed on included: a diagnostic in
\* embed_errors keeps no file out of the transfer.
C19_EmbedFailureStillTransferred ==
  (h.kind = "embed" /\ h.opened = "ok" /\ h.pc = "done" /\ ~h.reaped) =>
    /\ \A k \in 1..Len(h.in) :
         h.in[k].filename \in h.names0 =>
           \E c \in Range(Calls("stor")) : c.k = k /\ c.file = h.in[k].filename
    /\ \A c \in Range(Calls("exiftool")) :
         c.result # "ok" => \E d \in Range(Calls("stor")) : d.k = c.k

\* The embedding tool failed on a file and the file was transferred all the
\* same: the response names it in embed_errors and in uploaded.
C19_Witness ==
  /\ EmbedDone /\ h.detail = "completed"
  /\ \E e \in Range(h.errs) : e.filename \in Range(h.out)
====
